---- MODULE Spec2Model ----
(***************************************************************************)
(* git2version: version resolution from a git repository.                  *)
(*                                                                         *)
(* The repository (history, head, tag references, working tree) is the     *)
(* environment; get_git_info (src/src/gitinfo_owned.rs) and all_tags       *)
(* (src/src/git_helpers.rs) are the operations verified against it,        *)
(* Display/Debug of GitInfo (src/src/gitinfo.rs) is the rendering, and     *)
(* init_proxy_build / init_proxy_lib (src/src/proxy.rs) carry the record   *)
(* from the build script to the compiled library.                          *)
(*                                                                         *)
(* Text is modelled as a sequence of one-character strings.                *)
(* Option<T> is modelled as a sequence of length <= 1.                     *)
(***************************************************************************)
EXTENDS Integers, Sequences, FiniteSets, TLC

VARIABLES
    parents,   \* history: parents[c] is the parent list of commit c
    head,      \* commit HEAD resolves to, 0 while the branch is unborn
    tags,      \* tag references in the order the backend enumerates them
    workdir,   \* workdir[p] is the full status flag set of path p
    result,    \* value returned by the latest get_git_info call
    calls,     \* backend calls issued by that call, with their outcomes
    shown,     \* a GitInfo record and its Display / Debug renderings
    build      \* latest run of the proxy crate's build script and library

vars == <<parents, head, tags, workdir, result, calls, shown, build>>

----------------------------------------------------------------------------
(* Bounds *)

MaxCommits == 3

----------------------------------------------------------------------------
(* Option *)

None == <<>>
Some(x) == <<x>>
IsSome(o) == Len(o) = 1
Unwrap(o) == o[1]

----------------------------------------------------------------------------
(* Object ids and their textual rendering *)

COMMIT_ID_SHORT_HASH_LENGTH == 10
OID_HEX_LENGTH == 40

HexDigits == <<"0","1","2","3","4","5","6","7","8","9","a","b","c","d","e","f">>

Commits == 1..Len(parents)

\* Object id of the annotated tag object named by pool entry i and pointing
\* at commit c: a tag object is an object of its own, distinct from every
\* commit.
TagObjectId(i, c) == 100 + 10 * i + c

\* Oid::to_string(): 40 lower-case hex digits.  The digits stand for the
\* content hash of the object, so they vary with the object.
OidToString(o) ==
    [j \in 1..OID_HEX_LENGTH |-> HexDigits[((o * (j + 1) + j) % 16) + 1]]

Prefix(s, n) == SubSeq(s, 1, n)

----------------------------------------------------------------------------
(* Tag references *)

RefsTagsPrefix == <<"r","e","f","s","/","t","a","g","s","/">>

\* Short tag names the environment uses.
NamePool == << <<"v","1">>, <<"r","c">> >>

TagNameIdx == 1..Len(NamePool)

\* A byte that is not part of any valid UTF-8 encoding.
InvalidByte == "\\xff"

\* A tag reference as the backend enumerates it: the full reference name,
\* the id of the object the reference points at (the commit for a
\* lightweight tag, the tag object for an annotated tag) and the commit that
\* object peels to.
TagRef(i, c, annotated) ==
    [name   |-> RefsTagsPrefix \o NamePool[i],
     oid    |-> IF annotated THEN TagObjectId(i, c) ELSE c,
     commit |-> c]

ShortName(ref) == SubSeq(ref.name, Len(RefsTagsPrefix) + 1, Len(ref.name))

----------------------------------------------------------------------------
(* git_helpers::all_tags *)

\* std::str::from_utf8
FromUtf8(bytes) ==
    IF \A i \in 1..Len(bytes) : bytes[i] # InvalidByte
    THEN [ok |-> TRUE, val |-> bytes]
    ELSE [ok |-> FALSE, val |-> <<>>]

\* str::strip_prefix
StripPrefix(s, prefix) ==
    IF Len(s) >= Len(prefix) /\ SubSeq(s, 1, Len(prefix)) = prefix
    THEN Some(SubSeq(s, Len(prefix) + 1, Len(s)))
    ELSE None

\* Variant: an occupied entry is replaced by the new name.
EntryInsertOverwrite(map, oid, name) ==
    [o \in DOMAIN map \cup {oid} |-> IF o = oid THEN <<name>> ELSE map[o]]

\* Variant: a vacant entry is created empty, names are pushed onto occupied
\* entries only.
EntryInsertEmptyVacant(map, oid, name) ==
    [o \in DOMAIN map \cup {oid} |->
        IF o = oid
        THEN IF oid \in DOMAIN map THEN Append(map[oid], name) ELSE <<>>
        ELSE map[o]]

\* Variant: a name is also pushed onto the entry that was just inserted.
EntryInsertPushesAlways(map, oid, name) ==
    [o \in DOMAIN map \cup {oid} |->
        IF o = oid
        THEN IF oid \in DOMAIN map THEN Append(map[oid], name)
             ELSE <<name, name>>
        ELSE map[o]]

\* HashMap entry(): push onto an occupied entry, insert vec![name] into a
\* vacant one.
EntryInsert(map, oid, name) ==
    [o \in DOMAIN map \cup {oid} |->
        IF o = oid
        THEN IF oid \in DOMAIN map THEN Append(map[oid], name) ELSE <<name>>
        ELSE map[o]]

\* Variant: the closure asks for the enumeration to go on after it has
\* recorded an error.
TagCallbackContinues(st, oid, rawName) ==
    LET utf8 == FromUtf8(rawName)
        seen == Append(st.seen, rawName)
        failed == IsSome(st.error) IN
    IF ~utf8.ok
    THEN [result |-> st.result, error |-> Some("NotUtf8"), continue |-> TRUE,
          seen |-> seen, panic |-> st.panic \/ failed]
    ELSE LET stripped == StripPrefix(utf8.val, RefsTagsPrefix) IN
         IF ~IsSome(stripped)
         THEN [result |-> st.result, error |-> Some("NoTagsPrefix"),
               continue |-> TRUE, seen |-> seen,
               panic |-> st.panic \/ failed]
         ELSE [result |-> EntryInsert(st.result, oid, Unwrap(stripped)),
               error |-> st.error, continue |-> TRUE, seen |-> seen,
               panic |-> st.panic]

\* The closure passed to tag_foreach, applied to one enumerated tag.  It
\* returns the new (result, error) and whether enumeration continues; seen
\* lists the names the closure has been called on, and panic is set when
\* assert!(error.is_none()) fails in one of the error arms.
TagCallback(st, oid, rawName) ==
    LET utf8 == FromUtf8(rawName)
        seen == Append(st.seen, rawName)
        failed == IsSome(st.error) IN
    IF ~utf8.ok
    THEN [result |-> st.result, error |-> Some("NotUtf8"), continue |-> FALSE,
          seen |-> seen, panic |-> st.panic \/ failed]
    ELSE LET stripped == StripPrefix(utf8.val, RefsTagsPrefix) IN
         IF ~IsSome(stripped)
         THEN [result |-> st.result, error |-> Some("NoTagsPrefix"),
               continue |-> FALSE, seen |-> seen,
               panic |-> st.panic \/ failed]
         ELSE [result |-> EntryInsert(st.result, oid, Unwrap(stripped)),
               error |-> st.error, continue |-> TRUE, seen |-> seen,
               panic |-> st.panic]

\* Variant: the enumeration goes on after a call that returned false.
RECURSIVE TagForeachNoStop(_, _, _)
TagForeachNoStop(refs, i, st) ==
    IF i > Len(refs)
    THEN st
    ELSE TagForeachNoStop(refs, i + 1,
                          TagCallback(st, refs[i].oid, refs[i].name))

\* Repository::tag_foreach: calls the closure on each tag in enumeration
\* order and stops after the first call that returns false or panics.
RECURSIVE TagForeach(_, _, _)
TagForeach(refs, i, st) ==
    IF i > Len(refs) \/ ~st.continue \/ st.panic
    THEN st
    ELSE TagForeach(refs, i + 1, TagCallback(st, refs[i].oid, refs[i].name))

EmptyMap == [o \in {} |-> <<>>]

\* Variant: the index is one built before the reference enumerated last
\* existed.
AllTagsStale(refs, enumFails) ==
    LET st == TagForeach(SubSeq(refs, 1, Len(refs) - 1), 1,
                  [result |-> EmptyMap, error |-> None, continue |-> TRUE,
                   seen |-> <<>>, panic |-> FALSE]) IN
    IF enumFails
    THEN [ok |-> FALSE, map |-> EmptyMap, error |-> "TagForeach",
          seen |-> <<>>, panic |-> FALSE]
    ELSE IF st.panic
    THEN [ok |-> FALSE, map |-> EmptyMap, error |-> "", seen |-> st.seen,
          panic |-> TRUE]
    ELSE IF IsSome(st.error)
    THEN [ok |-> FALSE, map |-> EmptyMap, error |-> Unwrap(st.error),
          seen |-> st.seen, panic |-> FALSE]
    ELSE [ok |-> TRUE, map |-> st.result, error |-> "", seen |-> st.seen,
          panic |-> FALSE]

\* all_tags(repo): Ok(map) or Err.  enumFails is the backend reporting a
\* failure of the enumeration itself.
AllTags(refs, enumFails) ==
    LET st == TagForeach(refs, 1,
                  [result |-> EmptyMap, error |-> None, continue |-> TRUE,
                   seen |-> <<>>, panic |-> FALSE]) IN
    IF enumFails
    THEN [ok |-> FALSE, map |-> EmptyMap, error |-> "TagForeach",
          seen |-> <<>>, panic |-> FALSE]
    ELSE IF st.panic
    THEN [ok |-> FALSE, map |-> EmptyMap, error |-> "", seen |-> st.seen,
          panic |-> TRUE]
    ELSE IF IsSome(st.error)
    THEN [ok |-> FALSE, map |-> EmptyMap, error |-> Unwrap(st.error),
          seen |-> st.seen, panic |-> FALSE]
    ELSE [ok |-> TRUE, map |-> st.result, error |-> "", seen |-> st.seen,
          panic |-> FALSE]

----------------------------------------------------------------------------
(* Working tree status *)

FILENAME == "some_file"

\* The files of the working directory.
Paths == {FILENAME}

\* git2::Status is a flag set; the empty set is Status::CURRENT.
CURRENT == {}
IGNORED == {"IGNORED"}

\* Full status of a path, as a query including everything would report it.
StatusValues ==
    { CURRENT,                           \* tracked, unchanged
      {"WT_NEW"},                        \* untracked new file
      IGNORED,                           \* ignored file
      {"WT_MODIFIED"},                   \* unstaged edit of a tracked file
      {"INDEX_MODIFIED"},                \* staged edit of a tracked file
      {"INDEX_NEW"},                     \* staged addition
      {"WT_DELETED"},                    \* unstaged deletion
      {"INDEX_DELETED"} }                \* staged deletion

\* Variant: untracked files are included in the status query.
StatusOptionsUntracked ==
    [show              |-> "IndexAndWorkdir",
     include_untracked  |-> TRUE,
     include_ignored    |-> FALSE,
     include_unmodified |-> FALSE,
     exclude_submodules |-> FALSE]

\* The StatusOptions get_git_info builds.
StatusOptions ==
    [show              |-> "IndexAndWorkdir",
     include_untracked  |-> FALSE,
     include_ignored    |-> FALSE,
     include_unmodified |-> FALSE,
     exclude_submodules |-> FALSE]

\* Flags of a path that a query with the given options reports.
VisibleFlags(flags, opts) ==
    (flags \ (IF opts.include_untracked THEN {} ELSE {"WT_NEW"}))
           \ (IF opts.include_ignored THEN {} ELSE {"IGNORED"})

\* Repository::statuses(opts): one entry per listed path.
Statuses(wd, opts) ==
    { [path |-> p, status |-> VisibleFlags(wd[p], opts)] :
        p \in { q \in DOMAIN wd :
                  IF wd[q] = CURRENT
                  THEN opts.include_unmodified
                  ELSE VisibleFlags(wd[q], opts) # {} } }

\* Variant: only changes of the working tree count, staged ones do not.
AnyModifiedWorktreeOnly(entries) ==
    \E e \in entries : e.status \cap {"WT_MODIFIED", "WT_DELETED"} # {}

\* statuses.iter().any(|s| s.status() != CURRENT && s.status() != IGNORED)
AnyModified(entries) ==
    \E e \in entries : e.status # CURRENT /\ e.status # IGNORED

----------------------------------------------------------------------------
(* gitinfo_owned::get_git_info *)

NoCall == [kind |-> "NoCall"]
Ok(info) == [kind |-> "Ok", info |-> info]
Err(e) == [kind |-> "Err", error |-> e]
Panic == [kind |-> "Panic"]

Call(op, arg, outcome) == [op |-> op, arg |-> arg, outcome |-> outcome]

\* Backend faults a call can meet: head resolution, status query and tag
\* enumeration failing, and the commit whose first parent cannot be read
\* (0 for none).  A fault of a step that an earlier failing step keeps the
\* call from reaching cannot be observed, so such combinations are left out,
\* except status with tags, which shows which of the two is reported.
Faults ==
    { [head |-> h, status |-> s, tags |-> t, parent |-> c] :
        h \in BOOLEAN, s \in BOOLEAN, t \in BOOLEAN, c \in 0..MaxCommits }

FaultCases ==
    { f \in Faults :
        /\ f.head => ~f.status /\ ~f.tags /\ f.parent = 0
        /\ f.status \/ f.tags => f.parent = 0 }

NoFaults == [head |-> FALSE, status |-> FALSE, tags |-> FALSE, parent |-> 0]

\* Variant: the walk follows the last parent of a merge commit.
ParentLast(hist, c, f) ==
    IF hist[c] = <<>> THEN [ok |-> FALSE, commit |-> 0, outcome |-> "notfound"]
    ELSE IF f.parent = c THEN [ok |-> FALSE, commit |-> 0, outcome |-> "error"]
    ELSE [ok |-> TRUE, commit |-> hist[c][Len(hist[c])], outcome |-> "ok"]

\* Commit::parent(0): Ok(parent), or Err when the commit has no parent or
\* the parent cannot be read.
Parent0(hist, c, f) ==
    IF hist[c] = <<>> THEN [ok |-> FALSE, commit |-> 0, outcome |-> "notfound"]
    ELSE IF f.parent = c THEN [ok |-> FALSE, commit |-> 0, outcome |-> "error"]
    ELSE [ok |-> TRUE, commit |-> hist[c][1], outcome |-> "ok"]

\* Variant: the last name of the list is taken.
FirstLast(v) == IF Len(v) >= 1 THEN Some(v[Len(v)]) ELSE None

\* slice::first
First(v) == IF Len(v) >= 1 THEN Some(v[1]) ELSE None

\* Variant: at the root the walk reports the distance walked under an empty
\* tag name instead of None.
RECURSIVE TagWalkRootTag(_, _, _, _, _, _)
TagWalkRootTag(hist, all_tags, current_commit, commits_since_tag, f, log) ==
    IF current_commit \in DOMAIN all_tags
    THEN LET first == First(all_tags[current_commit])
         IN IF ~IsSome(first)
            THEN [tag_info |-> None, log |-> log, panic |-> TRUE]
            ELSE [tag_info |-> Some([tag |-> Unwrap(first),
                                     commits_since_tag |-> commits_since_tag]),
                  log |-> log, panic |-> FALSE]
    ELSE LET p == Parent0(hist, current_commit, f)
             log2 == Append(log, Call("parent", current_commit, p.outcome))
         IN IF p.ok
            THEN TagWalkRootTag(hist, all_tags, p.commit,
                                commits_since_tag + 1, f, log2)
            ELSE [tag_info |-> Some([tag |-> <<>>,
                                     commits_since_tag |-> commits_since_tag]),
                  log |-> log2, panic |-> FALSE]

\* Variant: the commit the walk starts from is counted as well.
RECURSIVE TagWalkCountsHead(_, _, _, _, _, _)
TagWalkCountsHead(hist, all_tags, current_commit, commits_since_tag, f, log) ==
    IF current_commit \in DOMAIN all_tags
    THEN LET first == First(all_tags[current_commit])
         IN IF ~IsSome(first)
            THEN [tag_info |-> None, log |-> log, panic |-> TRUE]
            ELSE [tag_info |-> Some([tag |-> Unwrap(first),
                                     commits_since_tag |->
                                         commits_since_tag + 1]),
                  log |-> log, panic |-> FALSE]
    ELSE LET p == Parent0(hist, current_commit, f)
             log2 == Append(log, Call("parent", current_commit, p.outcome))
         IN IF p.ok
            THEN TagWalkCountsHead(hist, all_tags, p.commit,
                                   commits_since_tag + 1, f, log2)
            ELSE [tag_info |-> None, log |-> log2, panic |-> FALSE]

\* Variant: the first parent of a commit is read twice before the walk
\* moves on.
RECURSIVE TagWalkReadsTwice(_, _, _, _, _, _)
TagWalkReadsTwice(hist, all_tags, current_commit, commits_since_tag, f, log) ==
    IF current_commit \in DOMAIN all_tags
    THEN LET first == First(all_tags[current_commit])
         IN IF ~IsSome(first)
            THEN [tag_info |-> None, log |-> log, panic |-> TRUE]
            ELSE [tag_info |-> Some([tag |-> Unwrap(first),
                                     commits_since_tag |-> commits_since_tag]),
                  log |-> log, panic |-> FALSE]
    ELSE LET p == Parent0(hist, current_commit, f)
             log2 == log \o << Call("parent", current_commit, p.outcome),
                               Call("parent", current_commit, p.outcome) >>
         IN IF p.ok
            THEN TagWalkReadsTwice(hist, all_tags, p.commit,
                                   commits_since_tag + 1, f, log2)
            ELSE [tag_info |-> None, log |-> log2, panic |-> FALSE]

\* The loop of get_git_info: returns the tag_info of the record and the
\* parent reads it made; panic is the expect on the first tag name of an
\* index entry failing.
RECURSIVE TagWalk(_, _, _, _, _, _)
TagWalk(hist, all_tags, current_commit, commits_since_tag, f, log) ==
    IF current_commit \in DOMAIN all_tags
    THEN LET first == First(all_tags[current_commit])
         IN IF ~IsSome(first)
            THEN [tag_info |-> None, log |-> log, panic |-> TRUE]
            ELSE [tag_info |-> Some([tag |-> Unwrap(first),
                                     commits_since_tag |-> commits_since_tag]),
                  log |-> log, panic |-> FALSE]
    ELSE LET p == Parent0(hist, current_commit, f)
             log2 == Append(log, Call("parent", current_commit, p.outcome))
         IN IF p.ok
            THEN TagWalk(hist, all_tags, p.commit, commits_since_tag + 1, f, log2)
            ELSE [tag_info |-> None, log |-> log2, panic |-> FALSE]

\* Variant: the short id is cut at git's default abbreviation length.
ShortCommitIdGitDefault(oid) == Prefix(OidToString(oid), 7)

\* head_commit.id().to_string()[..COMMIT_ID_SHORT_HASH_LENGTH]
ShortCommitId(oid) == Prefix(OidToString(oid), COMMIT_ID_SHORT_HASH_LENGTH)

\* Variant: the tags are enumerated before the status query.
GetGitInfoFromTagsFirst(hist, head_commit, refs, wd, f) ==
    LET head_commit_id_str == ShortCommitId(head_commit)
        log1 == <<Call("head", 0, "ok")>>
        all_tags == AllTags(refs, f.tags)
    IN
    IF ~all_tags.ok
    THEN [ret |-> IF all_tags.panic THEN Panic ELSE Err(all_tags.error),
          log |-> Append(log1, Call("all_tags", 0, "error"))]
    ELSE
    LET log2 == Append(log1, Call("all_tags", 0, "ok")) IN
    IF f.status
    THEN [ret |-> Err("Statuses"),
          log |-> Append(log2, Call("statuses", 0, "error"))]
    ELSE
    LET modified == AnyModified(Statuses(wd, StatusOptions))
        log3 == Append(log2, Call("statuses", 0, "ok"))
        walk == TagWalk(hist, all_tags.map, head_commit, 0, f, log3)
    IN [ret |-> IF walk.panic THEN Panic
                ELSE Ok([tag_info  |-> walk.tag_info,
                         commit_id |-> head_commit_id_str,
                         modified  |-> modified]),
        log |-> walk.log]

\* get_git_info from line 87 on, head_commit being the resolved head.
GetGitInfoFrom(hist, head_commit, refs, wd, f) ==
    LET head_commit_id_str == ShortCommitId(head_commit)
        log1 == <<Call("head", 0, "ok")>>
    IN
    IF f.status
    THEN [ret |-> Err("Statuses"),
          log |-> Append(log1, Call("statuses", 0, "error"))]
    ELSE
    LET modified == AnyModified(Statuses(wd, StatusOptions))
        log2 == Append(log1, Call("statuses", 0, "ok"))
        all_tags == AllTags(refs, f.tags)
    IN
    IF ~all_tags.ok
    THEN [ret |-> IF all_tags.panic THEN Panic ELSE Err(all_tags.error),
          log |-> Append(log2, Call("all_tags", 0, "error"))]
    ELSE
    LET log3 == Append(log2, Call("all_tags", 0, "ok"))
        walk == TagWalk(hist, all_tags.map, head_commit, 0, f, log3)
    IN [ret |-> IF walk.panic THEN Panic
                ELSE Ok([tag_info  |-> walk.tag_info,
                         commit_id |-> head_commit_id_str,
                         modified  |-> modified]),
        log |-> walk.log]

\* Variant: an unborn head is answered with a record without version
\* information instead of the error.
GetGitInfoUnbornOk(hist, hd, refs, wd, f) ==
    IF f.head
    THEN [ret |-> Err("Head"), log |-> <<Call("head", 0, "error")>>]
    ELSE IF hd = 0
    THEN [ret |-> Ok([tag_info |-> None, commit_id |-> <<>>,
                      modified |-> FALSE]),
          log |-> <<Call("head", 0, "error")>>]
    ELSE GetGitInfoFrom(hist, hd, refs, wd, f)

\* get_git_info(repo) under faults f: the value returned and the backend
\* calls made, in order.  repo.head()?.peel_to_commit()? fails on an unborn
\* head.
GetGitInfo(hist, hd, refs, wd, f) ==
    IF hd = 0 \/ f.head
    THEN [ret |-> Err("Head"), log |-> <<Call("head", 0, "error")>>]
    ELSE GetGitInfoFrom(hist, hd, refs, wd, f)

----------------------------------------------------------------------------
(* gitinfo: Display and Debug of GitInfo *)

DecimalDigits == <<"0","1","2","3","4","5","6","7","8","9">>

\* Display of a u32: its decimal digits, most significant first.
RECURSIVE U32ToString(_)
U32ToString(n) ==
    IF n < 10 THEN <<DecimalDigits[n + 1]>>
    ELSE Append(U32ToString(n \div 10), DecimalDigits[(n % 10) + 1])

\* Variant: the modification marker is appended with a dash.
DisplayFmtDash(self) ==
    LET w1 == IF IsSome(self.tag_info)
              THEN LET tag == Unwrap(self.tag_info)
                   IN tag.tag \o <<"+">> \o U32ToString(tag.commits_since_tag)
              ELSE <<"u","n","k","n","o","w","n">>
        w2 == w1 \o <<".","g">> \o self.commit_id
    IN IF self.modified
       THEN w2 \o <<"-","m","o","d","i","f","i","e","d">>
       ELSE w2

\* Variant: the distance follows the tag without the plus sign.
DisplayFmtNoPlus(self) ==
    LET w1 == IF IsSome(self.tag_info)
              THEN LET tag == Unwrap(self.tag_info)
                   IN tag.tag \o U32ToString(tag.commits_since_tag)
              ELSE <<"u","n","k","n","o","w","n">>
        w2 == w1 \o <<".","g">> \o self.commit_id
    IN IF self.modified
       THEN w2 \o <<".","m","o","d","i","f","i","e","d">>
       ELSE w2

\* impl Display for GitInfo: the pieces are written to the formatter one
\* after the other.
DisplayFmt(self) ==
    LET w1 == IF IsSome(self.tag_info)
              THEN LET tag == Unwrap(self.tag_info)
                   IN tag.tag \o <<"+">> \o U32ToString(tag.commits_since_tag)
              ELSE <<"u","n","k","n","o","w","n">>
        w2 == w1 \o <<".","g">> \o self.commit_id
    IN IF self.modified
       THEN w2 \o <<".","m","o","d","i","f","i","e","d">>
       ELSE w2

\* impl Debug for GitInfo: delegates to Display.
DebugFmt(self) == DisplayFmt(self)

\* GitInfo records that are rendered: with and without a tag, on and after
\* the tag, one- and several-digit distances, clean and modified; tags
\* that are prefixes of one another, hold a plus sign or read unknown.
FmtTags ==
    { <<"v","1",".","2",".","3">>, <<"r","c">>, <<"1",".","0">>,
      <<"v","1">>, <<"v","1","1">>, <<"v","1","+","1">>,
      <<"u","n","k","n","o","w","n">> }
FmtDistances == {0, 5, 10, 123}
FmtCommitIds == { <<"a","b","c","d","e","f","1","2","3","4">>,
                  <<"0","1","2","3","4","5","6","7","8","9">>,
                  <<"a","b","c","d","e","f">> }

FmtRecords ==
    { [tag_info |-> t, commit_id |-> c, modified |-> m] :
        t \in {None} \cup { Some([tag |-> n, commits_since_tag |-> d]) :
                              n \in FmtTags, d \in FmtDistances },
        c \in FmtCommitIds, m \in BOOLEAN }

----------------------------------------------------------------------------
(* The repository and the calls made on it *)

NotShown == [rec |-> None, display |-> None, debug |-> None]

\* No build script has run on the current state of the repository.
NoBuild == [status |-> "none", repo |-> "none", stdout |-> <<>>, gitinfo |-> None]

\* Repository::init: no commits, unborn head, no tags; the files written
\* to the working directory are untracked.
Init ==
    /\ parents = <<>>
    /\ head = 0
    /\ tags = <<>>
    /\ workdir = [p \in Paths |-> {"WT_NEW"}]
    /\ result = NoCall
    /\ calls = <<>>
    /\ shown = NotShown
    /\ build = NoBuild

\* A change of the repository ends the validity of the value returned for
\* the previous snapshot.
Forget ==
    /\ result' = NoCall
    /\ calls' = <<>>
    /\ build' = NoBuild
    /\ UNCHANGED shown

\* Writing the index as a tree and committing it: staged changes become
\* the committed content, unstaged ones stay.
AfterCommit(flags) ==
    IF flags \in {{"INDEX_NEW"}, {"INDEX_MODIFIED"}, {"INDEX_DELETED"}}
    THEN CURRENT ELSE flags

\* repo.commit(Some("HEAD"), .., parents): the first parent is the head
\* commit (none in an empty repository), a merge adds a second parent; HEAD
\* moves to the new commit.
Commit(second) ==
    /\ Len(parents) < MaxCommits
    /\ second \in Commits \cup {0}
    /\ second # 0 => head # 0 /\ second # head
    /\ LET ps == IF head = 0 THEN <<>>
                 ELSE IF second = 0 THEN <<head>> ELSE <<head, second>>
       IN parents' = Append(parents, ps)
    /\ head' = Len(parents) + 1
    /\ workdir' = [p \in Paths |-> AfterCommit(workdir[p])]
    /\ UNCHANGED tags
    /\ Forget

\* A forced checkout resets tracked files to the commit and leaves
\* untracked and ignored files alone.
AfterCheckout(flags) ==
    IF flags \in {{"WT_NEW"}, IGNORED} THEN flags
    ELSE IF flags = {"INDEX_NEW"} THEN {"WT_NEW"} ELSE CURRENT

\* repo.set_head_detached(c) followed by checkout_head(force).
SetHeadDetached(c) ==
    /\ c \in Commits
    /\ c # head
    /\ head' = c
    /\ workdir' = [p \in Paths |-> AfterCheckout(workdir[p])]
    /\ UNCHANGED <<parents, tags>>
    /\ Forget

\* The enumeration order of tags is the backend's: a new reference may
\* appear at any position.
InsertAt(seq, pos, x) ==
    SubSeq(seq, 1, pos - 1) \o <<x>> \o SubSeq(seq, pos, Len(seq))

WithoutName(refs, name) == SelectSeq(refs, LAMBDA r : r.name # name)

\* repo.tag_lightweight(name, commit, force = true) and
\* repo.tag(name, commit, .., force = true) for an annotated tag.
CreateTag(i, c, annotated, pos) ==
    /\ c \in Commits
    /\ LET ref == TagRef(i, c, annotated)
           rest == WithoutName(tags, ref.name)
       IN /\ pos \in 1..Len(rest) + 1
          /\ tags' = InsertAt(rest, pos, ref)
    /\ UNCHANGED <<parents, head, workdir>>
    /\ Forget

\* repo.tag_delete(name)
DeleteTag(i) ==
    /\ \E k \in 1..Len(tags) : tags[k].name = RefsTagsPrefix \o NamePool[i]
    /\ tags' = WithoutName(tags, RefsTagsPrefix \o NamePool[i])
    /\ UNCHANGED <<parents, head, workdir>>
    /\ Forget

\* Status a path can have: before the first commit nothing is tracked, so
\* a path is untracked, ignored or a staged addition.
PossibleStatus(hd) ==
    IF hd = 0 THEN {{"WT_NEW"}, IGNORED, {"INDEX_NEW"}} ELSE StatusValues

\* Editing, staging, deleting or creating a file.
ChangeFile(p, s) ==
    /\ s \in PossibleStatus(head)
    /\ s # workdir[p]
    /\ workdir' = [workdir EXCEPT ![p] = s]
    /\ UNCHANGED <<parents, head, tags>>
    /\ Forget

\* A call of get_git_info on the current repository, meeting faults f.
CallGetGitInfo(f) ==
    /\ f.parent \in Commits \cup {0}
    /\ LET r == GetGitInfo(parents, head, tags, workdir, f)
       IN /\ result' = r.ret
          /\ calls' = r.log
    /\ <<result', calls'>> # <<result, calls>>
    /\ UNCHANGED <<parents, head, tags, workdir, shown, build>>

Next ==
    \/ \E second \in 0..MaxCommits : Commit(second)
    \/ \E c \in 1..MaxCommits : SetHeadDetached(c)
    \/ \E i \in TagNameIdx, c \in 1..MaxCommits, a \in BOOLEAN,
          pos \in TagNameIdx : CreateTag(i, c, a, pos)
    \/ \E i \in TagNameIdx : DeleteTag(i)
    \/ \E p \in Paths, s \in StatusValues : ChangeFile(p, s)
    \/ CallGetGitInfo(NoFaults)

Spec == Init /\ [][Next]_vars

\* The same repository operations with lightweight tags only, and calls of
\* get_git_info that meet backend faults.
NextFaults ==
    \/ \E second \in 0..MaxCommits : Commit(second)
    \/ \E c \in 1..MaxCommits : SetHeadDetached(c)
    \/ \E i \in TagNameIdx, c \in 1..MaxCommits, pos \in TagNameIdx :
          CreateTag(i, c, FALSE, pos)
    \/ \E i \in TagNameIdx : DeleteTag(i)
    \/ \E p \in Paths, s \in StatusValues : ChangeFile(p, s)
    \/ \E f \in FaultCases : CallGetGitInfo(f)

SpecFaults == Init /\ [][NextFaults]_vars

\* A GitInfo record is constructed and rendered with format!("{}") and
\* format!("{:?}").
InitFmt ==
    /\ parents = <<>>
    /\ head = 0
    /\ tags = <<>>
    /\ workdir = [p \in Paths |-> {"WT_NEW"}]
    /\ result = NoCall
    /\ calls = <<>>
    /\ \E r \in FmtRecords :
          shown = [rec |-> Some(r), display |-> None, debug |-> None]
    /\ build = NoBuild

FormatDisplay ==
    /\ IsSome(shown.rec)
    /\ ~IsSome(shown.display)
    /\ shown' = [shown EXCEPT !.display = Some(DisplayFmt(Unwrap(shown.rec)))]
    /\ UNCHANGED <<parents, head, tags, workdir, result, calls, build>>

FormatDebug ==
    /\ IsSome(shown.rec)
    /\ ~IsSome(shown.debug)
    /\ shown' = [shown EXCEPT !.debug = Some(DebugFmt(Unwrap(shown.rec)))]
    /\ UNCHANGED <<parents, head, tags, workdir, result, calls, build>>

NextFmt == FormatDisplay \/ FormatDebug

SpecFmt == InitFmt /\ [][NextFmt]_vars

----------------------------------------------------------------------------
(* Calls of all_tags, and references with malformed names *)

\* Reference names that all_tags rejects: one that is not valid UTF-8 and
\* one outside the tag namespace.
MalformedNames ==
    << RefsTagsPrefix \o <<"v", InvalidByte>>,
       <<"r","e","f","s","/","h","e","a","d","s","/","m">> >>

MalformedIdx == 1..Len(MalformedNames)

\* A reference with a malformed name, as the backend hands it to the
\* closure of tag_foreach.
MalformedRef(j, c) == [name |-> MalformedNames[j], oid |-> c, commit |-> c]

RefPositions == 1..(Len(NamePool) + Len(MalformedNames))

\* The backend comes to enumerate a reference with a malformed name.
CreateMalformedTag(j, c, pos) ==
    /\ c \in Commits
    /\ LET ref == MalformedRef(j, c)
           rest == WithoutName(tags, ref.name)
       IN /\ pos \in 1..Len(rest) + 1
          /\ tags' = InsertAt(rest, pos, ref)
    /\ UNCHANGED <<parents, head, workdir>>
    /\ Forget

TagsOk(map) == [kind |-> "TagsOk", map |-> map]
TagsErr(e) == [kind |-> "TagsErr", error |-> e]

\* Variant: a call of all_tags deletes the reference with the invalid name
\* it has met.
CallAllTagsRepairing ==
    /\ LET r == AllTags(tags, FALSE)
       IN /\ result' = IF r.panic THEN Panic
                       ELSE IF r.ok THEN TagsOk(r.map) ELSE TagsErr(r.error)
          /\ calls' = [k \in 1..Len(r.seen) |->
                          Call("tag_callback", r.seen[k],
                               IF ~r.ok /\ k = Len(r.seen)
                               THEN "error" ELSE "ok")]
    /\ <<result', calls'>> # <<result, calls>>
    /\ tags' = WithoutName(tags, MalformedNames[1])
    /\ UNCHANGED <<parents, head, workdir, shown, build>>

\* A call of all_tags on the current repository.  calls lists the
\* invocations of the closure, the last of which failed if all_tags did.
CallAllTags ==
    /\ LET r == AllTags(tags, FALSE)
       IN /\ result' = IF r.panic THEN Panic
                       ELSE IF r.ok THEN TagsOk(r.map) ELSE TagsErr(r.error)
          /\ calls' = [k \in 1..Len(r.seen) |->
                          Call("tag_callback", r.seen[k],
                               IF ~r.ok /\ k = Len(r.seen)
                               THEN "error" ELSE "ok")]
    /\ <<result', calls'>> # <<result, calls>>
    /\ UNCHANGED <<parents, head, tags, workdir, shown, build>>

\* Linear histories whose tags include malformed references, with calls of
\* all_tags and of get_git_info.
NextTags ==
    \/ Commit(0)
    \/ \E i \in TagNameIdx, c \in 1..MaxCommits, a \in BOOLEAN,
          pos \in RefPositions : CreateTag(i, c, a, pos)
    \/ \E j \in MalformedIdx, c \in 1..MaxCommits, pos \in RefPositions :
          CreateMalformedTag(j, c, pos)
    \/ \E i \in TagNameIdx : DeleteTag(i)
    \/ CallAllTags
    \/ CallGetGitInfo(NoFaults)

SpecTags == Init /\ [][NextTags]_vars

----------------------------------------------------------------------------
(* proxy: init_proxy_build *)

IS_KNOWN == "PACKAGEVERSION_GITVERSION_IS_KNOWN"
HAS_TAG == "PACKAGEVERSION_GITVERSION_HAS_TAG"
TAG == "PACKAGEVERSION_GITVERSION_TAG"
COMMITS_SINCE_TAG == "PACKAGEVERSION_GITVERSION_COMMITS_SINCE_TAG"
COMMIT_ID == "PACKAGEVERSION_GITVERSION_COMMIT_ID"
MODIFIED == "PACKAGEVERSION_GITVERSION_MODIFIED"

EnvVars == {IS_KNOWN, HAS_TAG, TAG, COMMITS_SINCE_TAG, COMMIT_ID, MODIFIED}

TrueText == <<"t","r","u","e">>
FalseText == <<"f","a","l","s","e">>

\* Variant: booleans are written capitalised.
BoolToStringCapital(b) ==
    IF b THEN <<"T","r","u","e">> ELSE <<"F","a","l","s","e">>

\* Display of a bool
BoolToString(b) == IF b THEN TrueText ELSE FalseText

\* The lines the build script prints for cargo.
RustcEnv(var, value) == [directive |-> "rustc-env", var |-> var, value |-> value]
Warning(msg) == [directive |-> "warning", var |-> msg, value |-> <<>>]
RerunIfChanged(path) ==
    [directive |-> "rerun-if-changed", var |-> "", value |-> path]

\* repo.workdir(), repo.path() and CARGO_MANIFEST_DIR
WorkdirPath == <<"/","w","/">>
GitDirPath == <<"/","w","/",".","g","i","t","/">>
CargoManifestDir == <<"/","w","/","p">>

\* fn output_none()
OutputNone ==
    << RustcEnv(IS_KNOWN, FalseText),
       RustcEnv(HAS_TAG, FalseText),
       RustcEnv(TAG, <<>>),
       RustcEnv(COMMITS_SINCE_TAG, <<>>),
       RustcEnv(COMMIT_ID, <<>>),
       RustcEnv(MODIFIED, <<>>) >>

\* The lines printed for Some(repository_version).
OutputVersion(repository_version) ==
    << RustcEnv(IS_KNOWN, TrueText) >>
    \o (IF IsSome(repository_version.tag_info)
        THEN LET tag_info == Unwrap(repository_version.tag_info)
             IN << RustcEnv(HAS_TAG, TrueText),
                   RustcEnv(TAG, tag_info.tag),
                   RustcEnv(COMMITS_SINCE_TAG,
                            U32ToString(tag_info.commits_since_tag)) >>
        ELSE << RustcEnv(HAS_TAG, FalseText),
                RustcEnv(TAG, <<>>),
                RustcEnv(COMMITS_SINCE_TAG, <<>>) >>)
    \o << RustcEnv(COMMIT_ID, repository_version.commit_id),
          RustcEnv(MODIFIED, BoolToString(repository_version.modified)) >>

\* Repository::discover(cargo_manifest_dir): no repository, a repository
\* with a working directory, or a bare repository.
Discoveries == {"none", "workdir", "bare"}

\* Repository::workdir(): None for a bare repository.
Workdir(repo) == IF repo = "bare" THEN None ELSE Some(WorkdirPath)

\* The body of init_proxy_build for the discovered repository and the
\* value gi that get_git_info returned on it (NoCall without repository):
\* the lines printed and whether the script completed or panicked.
InitProxyBuildRun(repo, gi) ==
    LET discovered == repo # "none"
        w1 == IF discovered THEN <<>>
              ELSE <<Warning("didn't find git repository")>>
        repository_version ==
            IF discovered /\ gi.kind = "Ok" THEN Some(gi.info) ELSE None
        w2 == IF discovered /\ gi.kind = "Err"
              THEN <<Warning("Error getting version info from git")>>
              ELSE <<>>
        out == w1 \o w2
               \o (IF IsSome(repository_version)
                   THEN OutputVersion(Unwrap(repository_version))
                   ELSE OutputNone)
    IN IF discovered /\ gi = Panic
       THEN [status |-> "panicked", stdout |-> w1]
       ELSE IF ~discovered
       THEN [status |-> "completed",
             stdout |-> Append(out, RerunIfChanged(CargoManifestDir))]
       ELSE IF ~IsSome(Workdir(repo))
       THEN [status |-> "panicked", stdout |-> out]
       ELSE [status |-> "completed",
             stdout |-> out \o << RerunIfChanged(Unwrap(Workdir(repo))),
                                  RerunIfChanged(GitDirPath) >>]

----------------------------------------------------------------------------
(* proxy: init_proxy_lib *)

\* env!(var) in the library: the value of the last rustc-env line of the
\* build script for var, None (a compile error) without such a line.
CargoEnv(stdout, var) ==
    LET lines == { k \in 1..Len(stdout) :
                     stdout[k].directive = "rustc-env" /\ stdout[k].var = var }
    IN IF lines = {} THEN None
       ELSE Some(stdout[CHOOSE k \in lines : \A j \in lines : j <= k].value)

\* konst::primitive::parse_bool
ParseBool(text) ==
    IF text = TrueText THEN [ok |-> TRUE, val |-> TRUE]
    ELSE IF text = FalseText THEN [ok |-> TRUE, val |-> FALSE]
    ELSE [ok |-> FALSE, val |-> FALSE]

IsDigit(ch) == \E v \in 0..9 : DecimalDigits[v + 1] = ch

\* The number written by the digits text[i..] up to the first other
\* character, continuing the value acc.
RECURSIVE ParseDigits(_, _, _)
ParseDigits(text, i, acc) ==
    IF i > Len(text) \/ ~IsDigit(text[i]) THEN acc
    ELSE ParseDigits(text, i + 1,
             acc * 10 + (CHOOSE v \in 0..9 : DecimalDigits[v + 1] = text[i]))

\* Parser::new(text).parse_u32(): the leading decimal digits, an error if
\* there is none.
ParseU32(text) ==
    IF text = <<>> \/ ~IsDigit(text[1]) THEN [ok |-> FALSE, val |-> 0]
    ELSE [ok |-> TRUE, val |-> ParseDigits(text, 1, 0)]

CompileError == [ok |-> FALSE, value |-> None]
Compiled(gitinfo) == [ok |-> TRUE, value |-> gitinfo]

\* Variant: every variable is parsed whatever IS_KNOWN and HAS_TAG say.
GitInfoConstEager(stdout) ==
    LET env(var) == Unwrap(CargoEnv(stdout, var))
        is_known == ParseBool(env(IS_KNOWN))
        has_tag == ParseBool(env(HAS_TAG))
        commits_since_tag == ParseU32(env(COMMITS_SINCE_TAG))
        modified == ParseBool(env(MODIFIED))
    IN IF \E var \in EnvVars : ~IsSome(CargoEnv(stdout, var))
       THEN CompileError
       ELSE IF ~is_known.ok \/ ~has_tag.ok \/ ~modified.ok
               \/ ~commits_since_tag.ok
       THEN CompileError
       ELSE IF ~is_known.val THEN Compiled(None)
       ELSE Compiled(Some(
                [tag_info  |-> IF has_tag.val
                               THEN Some([tag |-> env(TAG),
                                          commits_since_tag |->
                                              commits_since_tag.val])
                               ELSE None,
                 commit_id |-> env(COMMIT_ID),
                 modified  |-> modified.val]))

\* pub const GITINFO: the constant the compiler evaluates from the
\* environment set by the build script, or a compile error when a variable
\* is missing or an unwrap! fails.
GitInfoConst(stdout) ==
    LET env(var) == Unwrap(CargoEnv(stdout, var))
        is_known == ParseBool(env(IS_KNOWN))
        has_tag == ParseBool(env(HAS_TAG))
        commits_since_tag == ParseU32(env(COMMITS_SINCE_TAG))
        modified == ParseBool(env(MODIFIED))
    IN IF \E var \in EnvVars : ~IsSome(CargoEnv(stdout, var))
       THEN CompileError
       ELSE IF ~is_known.ok THEN CompileError
       ELSE IF ~is_known.val THEN Compiled(None)
       ELSE IF ~has_tag.ok \/ ~modified.ok THEN CompileError
       ELSE IF has_tag.val /\ ~commits_since_tag.ok THEN CompileError
       ELSE Compiled(Some(
                [tag_info  |-> IF has_tag.val
                               THEN Some([tag |-> env(TAG),
                                          commits_since_tag |->
                                              commits_since_tag.val])
                               ELSE None,
                 commit_id |-> env(COMMIT_ID),
                 modified  |-> modified.val]))

----------------------------------------------------------------------------
(* The proxy crate is built on the repository *)

\* cargo runs the build script: init_proxy_build discovers a repository
\* (or none) from the manifest directory and calls get_git_info on it,
\* which meets faults f.  A bare repository has no working tree, so the
\* call fails there at the head or at the status query.
InitProxyBuild(repo, f) ==
    /\ repo \in Discoveries
    /\ f.parent \in Commits \cup {0}
    /\ repo = "bare" => (head = 0 \/ f.head \/ f.status)
    /\ LET r == IF repo = "none" THEN [ret |-> NoCall, log |-> <<>>]
                ELSE GetGitInfo(parents, head, tags, workdir, f)
           run == InitProxyBuildRun(repo, r.ret)
       IN /\ result' = r.ret
          /\ calls' = r.log
          /\ build' = [status |-> run.status, repo |-> repo,
                       stdout |-> run.stdout, gitinfo |-> None]
    /\ <<result', calls', build'>> # <<result, calls, build>>
    /\ UNCHANGED <<parents, head, tags, workdir, shown>>

\* cargo compiles the library after a build script that completed:
\* init_proxy_lib defines GITINFO.
InitProxyLib ==
    /\ build.status = "completed"
    /\ ~IsSome(build.gitinfo)
    /\ build' = [build EXCEPT !.gitinfo = Some(GitInfoConst(build.stdout))]
    /\ UNCHANGED <<parents, head, tags, workdir, result, calls, shown>>

\* Linear histories with lightweight tags, on which the proxy crate is
\* built.
NextProxy ==
    \/ Commit(0)
    \/ \E c \in 1..MaxCommits : SetHeadDetached(c)
    \/ \E i \in TagNameIdx, c \in 1..MaxCommits, pos \in TagNameIdx :
          CreateTag(i, c, FALSE, pos)
    \/ \E i \in TagNameIdx : DeleteTag(i)
    \/ \E p \in Paths, s \in StatusValues : ChangeFile(p, s)
    \/ \E repo \in Discoveries, f \in FaultCases : InitProxyBuild(repo, f)
    \/ InitProxyLib

SpecProxy == Init /\ [][NextProxy]_vars

----------------------------------------------------------------------------
(* Claims *)

\* The commit reached from c by k first-parent steps, 0 if the chain ends
\* before.
RECURSIVE FirstParentAt(_, _)
FirstParentAt(c, k) ==
    IF c = 0 \/ k = 0 THEN c
    ELSE FirstParentAt(IF parents[c] = <<>> THEN 0 ELSE parents[c][1], k - 1)

\* Distances at which the first-parent chain of the head has a commit.
ChainDistances == { k \in 0..MaxCommits : head # 0 /\ FirstParentAt(head, k) # 0 }

\* Short names of the tags that point at commit c, directly or through a
\* tag object.
TagsOn(c) == { ShortName(tags[k]) : k \in { j \in 1..Len(tags) : tags[j].commit = c } }

Tagged(c) == TagsOn(c) # {}

\* Commit t is the nearest tagged commit of the head's first-parent chain,
\* n steps from the head.
NearestTagged(t, n) ==
    /\ n \in ChainDistances
    /\ FirstParentAt(head, n) = t
    /\ Tagged(t)
    /\ \A k \in 0..n - 1 : ~Tagged(FirstParentAt(head, k))

\* The commits reachable from c through parents of any position, c included.
RECURSIVE Ancestors(_)
Ancestors(c) ==
    {c} \cup UNION { Ancestors(parents[c][i]) : i \in 1..Len(parents[c]) }

ReturnedOk == result.kind = "Ok"

FoundTag(names, n) ==
    /\ IsSome(result.info.tag_info)
    /\ Unwrap(result.info.tag_info).tag \in names
    /\ Unwrap(result.info.tag_info).commits_since_tag = n

\* C9: on a repository with no commits (the head cannot be resolved to a
\* commit) a get_git_info call that has returned has returned an error and
\* no record.
EmptyRepoFails ==
    (result # NoCall /\ parents = <<>>) => result.kind = "Err"

\* A call on the empty repository has returned.
EmptyRepoFailsWitness ==
    /\ parents = <<>>
    /\ head = 0
    /\ result = Err("Head")
    /\ calls = <<Call("head", 0, "error")>>

\* Every commit of the head's first-parent chain at a distance below n has
\* exactly one parent.
LinearFor(n) ==
    \A k \in 0..n - 1 : Len(parents[FirstParentAt(head, k)]) = 1

\* C1: when the head is N >= 0 single-parent commits after a tagged commit
\* and no commit from that commit to the head is tagged, the record
\* returned by get_git_info has tag_info = Some with that commit's tag and
\* commits_since_tag = N.
LinearCommitsAfterTag ==
    \A t \in Commits, n \in 0..MaxCommits :
        (ReturnedOk /\ NearestTagged(t, n) /\ LinearFor(n))
            => FoundTag(TagsOn(t), n)

\* C2: with exactly one tag in the repository, on the head commit, the
\* record returned by get_git_info has tag_info = Some with
\* commits_since_tag = 0 and the short name of that tag.
OneTagOnHead ==
    (ReturnedOk /\ Len(tags) = 1 /\ tags[1].commit = head)
        => FoundTag({ShortName(tags[1])}, 0)

\* Some tag on commit c is an annotated tag: its reference points at a tag
\* object, not at c.
AnnotatedOn(c) ==
    \E k \in 1..Len(tags) : tags[k].commit = c /\ tags[k].oid # c

\* C3: when the nearest tagged commit of the head's first-parent chain
\* carries an annotated tag, get_git_info finds it: tag_info is Some with a
\* tag of that commit and the first-parent distance to it.
AnnotatedTagFound ==
    \A t \in Commits, n \in 0..MaxCommits :
        (ReturnedOk /\ NearestTagged(t, n) /\ AnnotatedOn(t))
            => FoundTag(TagsOn(t), n)

\* C4: a get_git_info call that returns Ok has met no backend error: every
\* backend error (head resolution, status query, tag enumeration, reading a
\* first parent) makes the call return Err.
BackendErrorsSurface ==
    ReturnedOk => \A k \in 1..Len(calls) : calls[k].outcome # "error"

\* A tagged commit is an ancestor of the head without being on its
\* first-parent chain, and no commit of that chain is tagged.
TagOnlyOnSideBranch ==
    /\ head # 0
    /\ \A k \in ChainDistances : ~Tagged(FirstParentAt(head, k))
    /\ \E c \in Ancestors(head) : Tagged(c)

\* C5: a tag that sits only on a commit reached from the head through a
\* second parent is not reported: when no commit of the head's first-parent
\* chain is tagged, the record returned has tag_info = None although a
\* tagged commit is an ancestor of the head.
SideBranchTagInvisible ==
    (ReturnedOk /\ TagOnlyOnSideBranch) => result.info.tag_info = None

\* The head is a merge commit whose second parent carries a lightweight
\* tag, and the call has returned a record without tag.
SideBranchTagInvisibleWitness ==
    /\ ReturnedOk
    /\ TagOnlyOnSideBranch
    /\ Len(parents[head]) = 2
    /\ \E k \in 1..Len(tags) :
          tags[k].commit = parents[head][2] /\ tags[k].oid = tags[k].commit
    /\ result.info.tag_info = None

\* The head call of the latest get_git_info call succeeded.
HeadResolved == Len(calls) >= 1 /\ calls[1] = Call("head", 0, "ok")

\* C6 as stated: on a repository with zero tags whose head resolves to a
\* commit, a get_git_info call that has returned has returned Ok with
\* tag_info = None.
NoTagsSucceeds ==
    (result # NoCall /\ tags = <<>> /\ HeadResolved)
        => (ReturnedOk /\ result.info.tag_info = None)

\* The status query and the tag enumeration of the latest call succeeded.
StatusAndTagsRead ==
    /\ Len(calls) >= 3
    /\ calls[2] = Call("statuses", 0, "ok")
    /\ calls[3] = Call("all_tags", 0, "ok")

\* C6 amended: on a repository with zero tags whose head resolves to a
\* commit and whose status query and tag enumeration succeed, get_git_info
\* returns Ok with tag_info = None, for any history.
NoTagsSucceedsWhenReadable ==
    (result # NoCall /\ tags = <<>> /\ HeadResolved /\ StatusAndTagsRead)
        => (ReturnedOk /\ result.info.tag_info = None)

\* A call on a history of several commits without tags has returned.
NoTagsSucceedsWitness ==
    /\ tags = <<>>
    /\ Len(parents) >= 2
    /\ HeadResolved
    /\ StatusAndTagsRead
    /\ ReturnedOk
    /\ result.info.tag_info = None

\* C7: untracked new files never make modified true, and a staged or an
\* unstaged edit of a tracked file always makes it true, whatever tag is
\* found.
UntrackedNotModified ==
    ReturnedOk =>
        /\ (\A p \in Paths : workdir[p] \in {CURRENT, {"WT_NEW"}})
               => ~result.info.modified
        /\ (\E p \in Paths :
                workdir[p] \cap {"INDEX_MODIFIED", "WT_MODIFIED"} # {})
               => result.info.modified

\* An untracked file is present, a tag is found, modified is false.
UntrackedNotModifiedWitness ==
    /\ ReturnedOk
    /\ \E p \in Paths : workdir[p] = {"WT_NEW"}
    /\ IsSome(result.info.tag_info)
    /\ ~result.info.modified

\* C8: in every Ok result commit_id has length COMMIT_ID_SHORT_HASH_LENGTH
\* and is the prefix of the full textual id of the head commit.
CommitIdIsHeadPrefix ==
    ReturnedOk =>
        /\ Len(result.info.commit_id) = COMMIT_ID_SHORT_HASH_LENGTH
        /\ \A i \in 1..Len(result.info.commit_id) :
              result.info.commit_id[i] = OidToString(head)[i]

\* The tag was found on an ancestor of the head whose id starts differently
\* from the head's.
CommitIdIsHeadPrefixWitness ==
    /\ ReturnedOk
    /\ IsSome(result.info.tag_info)
    /\ Unwrap(result.info.tag_info).commits_since_tag >= 1
    /\ LET t == FirstParentAt(head,
                    Unwrap(result.info.tag_info).commits_since_tag)
       IN Prefix(OidToString(t), COMMIT_ID_SHORT_HASH_LENGTH)
              # result.info.commit_id

ModifiedSuffix == <<".","m","o","d","i","f","i","e","d">>

DigitValue(d) == CHOOSE v \in 0..9 : DecimalDigits[v + 1] = d

RECURSIVE DecimalValue(_)
DecimalValue(digits) ==
    IF digits = <<>> THEN 0
    ELSE DecimalValue(SubSeq(digits, 1, Len(digits) - 1)) * 10
             + DigitValue(digits[Len(digits)])

\* digits is the decimal numeral of n, without leading zeros.
IsDecimalOf(digits, n) ==
    /\ Len(digits) >= 1
    /\ \A i \in 1..Len(digits) : \E v \in 0..9 : DecimalDigits[v + 1] = digits[i]
    /\ Len(digits) > 1 => digits[1] # "0"
    /\ DecimalValue(digits) = n

\* out is <tag>+<num>.g<commit_id> for a record with a tag, where num is
\* the decimal numeral of commits_since_tag, and unknown.g<commit_id> for
\* one without, followed by .modified iff modified is true.
RendersAs(out, r) ==
    LET tail == <<".","g">> \o r.commit_id
                    \o (IF r.modified THEN ModifiedSuffix ELSE <<>>)
    IN IF IsSome(r.tag_info)
       THEN LET tag == Unwrap(r.tag_info).tag
                num == SubSeq(out, Len(tag) + 2, Len(out) - Len(tail))
            IN /\ IsDecimalOf(num, Unwrap(r.tag_info).commits_since_tag)
               /\ out = tag \o <<"+">> \o num \o tail
       ELSE out = <<"u","n","k","n","o","w","n">> \o tail

\* The two renderings the specification gives as examples.
ExampleTagged ==
    [tag_info |-> Some([tag |-> <<"v","1",".","2",".","3">>,
                        commits_since_tag |-> 5]),
     commit_id |-> <<"a","b","c","d","e","f","1","2","3","4">>,
     modified |-> TRUE]

ExampleTaggedText ==
    <<"v","1",".","2",".","3","+","5",".","g",
      "a","b","c","d","e","f","1","2","3","4",
      ".","m","o","d","i","f","i","e","d">>

ExampleUntagged ==
    [tag_info |-> None,
     commit_id |-> <<"a","b","c","d","e","f","1","2","3","4">>,
     modified |-> FALSE]

ExampleUntaggedText ==
    <<"u","n","k","n","o","w","n",".","g",
      "a","b","c","d","e","f","1","2","3","4">>

\* C10: for every GitInfo record Display and Debug render
\* <tag>+<commits_since_tag>.g<commit_id> when tag_info is Some and
\* unknown.g<commit_id> when it is None, followed by .modified iff modified
\* is true, and the Debug output equals the Display output.
RenderingFormat ==
    /\ IsSome(shown.display) =>
          /\ RendersAs(Unwrap(shown.display), Unwrap(shown.rec))
          /\ Unwrap(shown.rec) = ExampleTagged
                => Unwrap(shown.display) = ExampleTaggedText
          /\ Unwrap(shown.rec) = ExampleUntagged
                => Unwrap(shown.display) = ExampleUntaggedText
    /\ IsSome(shown.debug) =>
          RendersAs(Unwrap(shown.debug), Unwrap(shown.rec))
    /\ (IsSome(shown.display) /\ IsSome(shown.debug))
          => shown.display = shown.debug

\* A modified record with a tag and a distance of several digits has been
\* rendered both ways.
RenderingFormatWitness ==
    /\ IsSome(shown.rec)
    /\ IsSome(Unwrap(shown.rec).tag_info)
    /\ Unwrap(Unwrap(shown.rec).tag_info).commits_since_tag >= 10
    /\ Unwrap(shown.rec).modified
    /\ IsSome(shown.display)
    /\ IsSome(shown.debug)

\* C11: when two or more tags point at the same commit and that commit is
\* the nearest tagged commit of the head's first-parent chain, the record
\* returned by get_git_info reports one of those tags' names and the
\* first-parent distance to that commit.
SeveralTagsOnNearest ==
    \A t \in Commits, n \in 0..MaxCommits :
        (ReturnedOk /\ NearestTagged(t, n) /\ Cardinality(TagsOn(t)) >= 2)
            => FoundTag(TagsOn(t), n)

\* The index that the latest call of all_tags returned.
ReturnedIndex == result.kind = "TagsOk"

\* Object ids that the enumerated tag references point at.
TagTargets == { tags[k].oid : k \in 1..Len(tags) }

\* Short names of the tag references that point at object o.
NamesAt(o) ==
    { ShortName(tags[k]) : k \in { j \in 1..Len(tags) : tags[j].oid = o } }

\* The elements of a sequence.
Range(seq) == { seq[k] : k \in 1..Len(seq) }

\* C15: the map returned by all_tags has exactly the target object ids of
\* the enumerated tags as keys, and the list of a key holds exactly the
\* short names of the tags pointing at it, each once; without tags the map
\* is empty.
AllTagsGroupsByTarget ==
    ReturnedIndex =>
        /\ DOMAIN result.map = TagTargets
        /\ \A o \in DOMAIN result.map :
              /\ Range(result.map[o]) = NamesAt(o)
              /\ Len(result.map[o]) = Cardinality(NamesAt(o))
        /\ tags = <<>> => result.map = EmptyMap

\* all_tags has returned a map with one key that lists the names of two
\* tags.
AllTagsGroupsByTargetWitness ==
    /\ ReturnedIndex
    /\ Len(tags) = 2
    /\ \E o \in DOMAIN result.map : Len(result.map[o]) = 2

\* C16: every key of the map returned by all_tags has a list of at least
\* one name, and the expect on the first name of an entry in get_git_info
\* has not failed.
TagIndexNoEmptyList ==
    /\ ReturnedIndex => \A o \in DOMAIN result.map : Len(result.map[o]) >= 1
    /\ result # Panic

\* all_tags has returned a map with a key entered once and a key pushed
\* onto.
TagIndexNoEmptyListWitness ==
    /\ ReturnedIndex
    /\ Len(tags) = 2
    /\ \E o \in DOMAIN result.map : result.map[o] = <<ShortName(tags[1]), ShortName(tags[2])>>

\* The reference is rejected by all_tags: its name is not valid UTF-8 or
\* lies outside refs/tags/.
Malformed(ref) ==
    \/ \E i \in 1..Len(ref.name) : ref.name[i] = InvalidByte
    \/ Len(ref.name) < Len(RefsTagsPrefix)
    \/ \E i \in 1..Len(RefsTagsPrefix) : ref.name[i] # RefsTagsPrefix[i]

MalformedError(ref) ==
    IF \E i \in 1..Len(ref.name) : ref.name[i] = InvalidByte
    THEN "NotUtf8" ELSE "NoTagsPrefix"

\* Position of the first malformed reference in enumeration order, 0 if
\* there is none.
FirstMalformed ==
    IF \E k \in 1..Len(tags) : Malformed(tags[k])
    THEN CHOOSE k \in 1..Len(tags) :
            /\ Malformed(tags[k])
            /\ \A j \in 1..k - 1 : ~Malformed(tags[j])
    ELSE 0

AllTagsReturned == result.kind \in {"TagsOk", "TagsErr"}

\* C17: when an enumerated reference is malformed, all_tags returns the
\* error of the first such reference and no map, and the closure has been
\* called on the references up to that one and on none after it.
MalformedTagStops ==
    (AllTagsReturned /\ FirstMalformed # 0) =>
        /\ result = TagsErr(MalformedError(tags[FirstMalformed]))
        /\ Len(calls) = FirstMalformed
        /\ \A k \in 1..Len(calls) : calls[k].arg = tags[k].name

\* all_tags has failed on a malformed reference enumerated after a valid
\* one and before another malformed one with the other defect.
MalformedTagStopsWitness ==
    /\ result.kind = "TagsErr"
    /\ Len(calls) = 2
    /\ Len(tags) >= 3
    /\ Malformed(tags[3])
    /\ MalformedError(tags[3]) # result.error

\* The build script has run on the current state of the repository.
BuildRan == build.status # "none"

\* The rerun-if-changed paths the build script declared, in order.
Triggers ==
    LET lines == SelectSeq(build.stdout,
                           LAMBDA l : l.directive = "rerun-if-changed")
    IN [k \in 1..Len(lines) |-> lines[k].value]

\* C12: when no repository is discovered, or get_git_info returns an error
\* on the discovered one, init_proxy_build runs to completion and emits
\* PACKAGEVERSION_GITVERSION_IS_KNOWN=false, and the GITINFO that
\* init_proxy_lib generates is None.
BuildNeverAborts ==
    (BuildRan /\ (build.repo = "none" \/ result.kind = "Err")) =>
        /\ build.status = "completed"
        /\ CargoEnv(build.stdout, IS_KNOWN) = Some(FalseText)
        /\ IsSome(build.gitinfo) => Unwrap(build.gitinfo) = Compiled(None)

\* C13: for every record R that get_git_info returned to the build script,
\* the GITINFO constant decoded by init_proxy_lib from the emitted
\* environment variables is Some(R), field for field.
BuildRuntimeRoundTrip ==
    (ReturnedOk /\ IsSome(build.gitinfo)) =>
        Unwrap(build.gitinfo) = Compiled(Some(result.info))

\* The library was compiled from a record with a tag at a distance of at
\* least one commit and with modified set.
BuildRuntimeRoundTripWitness ==
    /\ ReturnedOk
    /\ IsSome(build.gitinfo)
    /\ IsSome(result.info.tag_info)
    /\ Unwrap(result.info.tag_info).commits_since_tag >= 1
    /\ result.info.modified

\* C14: a build script run that discovered a repository has declared the
\* two change triggers, on the working directory and on the repository
\* directory, also when get_git_info failed; a run that discovered none
\* has declared exactly one, on the manifest directory.
TriggersDeclared ==
    BuildRan =>
        IF build.repo = "none"
        THEN Triggers = <<CargoManifestDir>>
        ELSE /\ Len(Triggers) = 2
             /\ {Triggers[1], Triggers[2]} = {WorkdirPath, GitDirPath}

\* Commit c is a key of the tag index: some tag reference points at it
\* directly.
InTagIndex(c) == NamesAt(c) # {}

WalkComplete ==
    (ReturnedOk /\ result.info.tag_info = None) =>
        /\ \A k \in ChainDistances : ~Tagged(FirstParentAt(head, k))
        /\ LET last == calls[Len(calls)]
           IN /\ last.op = "parent"
              /\ last.outcome = "notfound"
              /\ parents[last.arg] = <<>>

\* Paths that the status query of get_git_info lists: tracked paths with a
\* staged or unstaged change.
Reported == { p \in Paths : workdir[p] \notin {CURRENT, {"WT_NEW"}, IGNORED} }

\* C20: modified is true iff the status query lists a path (its status is
\* then neither CURRENT nor IGNORED): true for a staged addition, a staged
\* or unstaged modification and a staged or unstaged deletion, false when
\* every tracked path is unchanged.
ModifiedIffChanged ==
    ReturnedOk =>
        /\ result.info.modified <=> Reported # {}
        /\ \A p \in Paths :
              workdir[p] \in {{"INDEX_NEW"}, {"INDEX_MODIFIED"},
                              {"WT_MODIFIED"}, {"INDEX_DELETED"},
                              {"WT_DELETED"}}
                  => result.info.modified
        /\ (\A p \in Paths : workdir[p] = CURRENT) => ~result.info.modified

\* A call has reported modified for a staged deletion.
ModifiedIffChangedWitness ==
    /\ ReturnedOk
    /\ result.info.modified
    /\ workdir[FILENAME] = {"INDEX_DELETED"}

\* Position of a backend step in the order get_git_info issues them.
StepRank(op) ==
    CASE op = "head" -> 1
      [] op = "statuses" -> 2
      [] op = "all_tags" -> 3
      [] op = "parent" -> 4

\* get_git_info has returned on the current repository.
GetGitInfoReturned == result.kind \in {"Ok", "Err"}

\* The log of the latest call starts with the head resolution, issues the
\* status query, the tag enumeration and the parent reads of the walk in
\* that order, each of the first three once, and holds no step after one
\* that failed or found nothing.
StepsInOrder ==
    /\ Len(calls) >= 1
    /\ calls[1].op = "head"
    /\ \A k \in 1..Len(calls) - 1 :
          /\ calls[k].outcome = "ok"
          /\ StepRank(calls[k + 1].op) =
                IF calls[k].op = "parent" THEN 4 ELSE StepRank(calls[k].op) + 1
    /\ \A k \in 1..Len(calls) :
          (calls[k].outcome = "error" /\ calls[k].op # "parent") =>
              result.kind = "Err"

\* The backend fails both the status query and the tag enumeration.
StatusAndTagsFail ==
    [head |-> FALSE, status |-> TRUE, tags |-> TRUE, parent |-> 0]

\* C21: get_git_info issues head resolution, status query, tag enumeration
\* and the walk in this order and stops at the first failing step; after a
\* failing head resolution nothing else is issued, and a call on which
\* both the status query and the tag enumeration would fail returns the
\* error of the status query.
FixedStepOrder ==
    /\ [](GetGitInfoReturned => StepsInOrder)
    /\ [][(head # 0 /\ CallGetGitInfo(StatusAndTagsFail))
              => /\ result' = Err("Statuses")
                 /\ calls' = <<Call("head", 0, "ok"),
                               Call("statuses", 0, "error")>>]_vars

\* A call has failed at the status query, after the head was resolved and
\* before any tag was enumerated.
FixedStepOrderWitness ==
    /\ result = Err("Statuses")
    /\ calls = <<Call("head", 0, "ok"), Call("statuses", 0, "error")>>
    /\ Len(tags) >= 1

\* Positions, in enumeration order, of the tag references that point at
\* object o directly.
RefsAt(o) == { k \in 1..Len(tags) : tags[k].oid = o }

CallsAreReadOnly ==
    [][(result' # NoCall /\ <<result', calls'>> # <<result, calls>>)
          => UNCHANGED <<parents, head, tags, workdir>>]_vars

\* all_tags has returned an error on a repository that still holds the
\* malformed reference and a tag enumerated before it.
CallsAreReadOnlyWitness ==
    /\ result.kind = "TagsErr"
    /\ Len(calls) >= 2
    /\ Len(tags) >= 2
    /\ calls[Len(calls)].arg = tags[Len(calls)].name

\* Distances at which the head's first-parent chain has a commit that some
\* tag reference points at directly.
IndexedDistances == { k \in ChainDistances : InTagIndex(FirstParentAt(head, k)) }

\* The tag_info that the repository as it is determines: the nearest
\* commit of the chain that is in the tag index, with the name enumerated
\* first for it.
SnapshotTagInfo ==
    IF IndexedDistances = {} THEN None
    ELSE LET n == CHOOSE k \in IndexedDistances :
                      \A j \in IndexedDistances : k <= j
             at == RefsAt(FirstParentAt(head, n))
             first == CHOOSE j \in at : \A i \in at : j <= i
         IN Some([tag |-> ShortName(tags[first]), commits_since_tag |-> n])

\* The value of get_git_info as a function of the repository as it is,
\* for a backend that reports no error.
SnapshotResult ==
    IF head = 0 THEN Err("Head")
    ELSE Ok([tag_info  |-> SnapshotTagInfo,
             commit_id |-> Prefix(OidToString(head), COMMIT_ID_SHORT_HASH_LENGTH),
             modified  |-> Reported # {}])

\* C24: a resolution carries no state: whatever changes of the repository
\* and resolutions came before, the value a get_git_info call has returned
\* is the one the repository as it is at the call determines, so two calls
\* on the same unchanged repository return equal values.
ResultDependsOnSnapshotOnly ==
    GetGitInfoReturned => result = SnapshotResult

\* A call has returned on a repository of three commits with two tags and
\* a changed file, the nearest tag being the one enumerated last.
ResultDependsOnSnapshotOnlyWitness ==
    /\ ReturnedOk
    /\ Len(parents) = 3
    /\ Len(tags) = 2
    /\ IsSome(result.info.tag_info)
    /\ Unwrap(result.info.tag_info).tag = ShortName(tags[2])
    /\ result.info.modified

\* Places (key, position) of the returned map that hold the name.
PlacesOf(name) ==
    { <<o, i>> \in UNION { {o} \X (1..Len(result.map[o])) :
                             o \in DOMAIN result.map } :
        result.map[o][i] = name }

\* Sum of the lengths of the lists of a map over the keys in keys.
RECURSIVE TotalLength(_, _)
TotalLength(map, keys) ==
    IF keys = {} THEN 0
    ELSE LET o == CHOOSE x \in keys : TRUE
         IN Len(map[o]) + TotalLength(map, keys \ {o})

\* C25: in a map returned by all_tags the name of each enumerated tag is
\* at exactly one place, and the lengths of the lists add up to the number
\* of tags enumerated.
EachNameOnce ==
    ReturnedIndex =>
        /\ \A k \in 1..Len(tags) : Cardinality(PlacesOf(ShortName(tags[k]))) = 1
        /\ TotalLength(result.map, DOMAIN result.map) = Len(tags)

\* all_tags has returned a map for two tags on different objects.
EachNameOnceWitness ==
    /\ ReturnedIndex
    /\ Len(tags) = 2
    /\ Cardinality(DOMAIN result.map) = 2

\* The parent reads of the latest call: one for each iteration of the walk
\* that did not find a tag.
ParentReads == SelectSeq(calls, LAMBDA c : c.op = "parent")

\* Number of commits on the head's first-parent chain.
ChainLength == Cardinality(ChainDistances)

\* Iterations of the loop: those that read a parent and the one that found
\* the tag.
Iterations ==
    Len(ParentReads) + (IF IsSome(result.info.tag_info) THEN 1 ELSE 0)

\* C26: the walk of a get_git_info call that returned a record visited the
\* commits of the head's first-parent chain in order, each at most once,
\* in at most as many iterations as the chain has commits, and the
\* commits_since_tag it reports is at most the chain length minus one.
WalkIsBounded ==
    ReturnedOk =>
        /\ \A i \in 1..Len(ParentReads) :
              ParentReads[i].arg = FirstParentAt(head, i - 1)
        /\ \A i, j \in 1..Len(ParentReads) :
              i # j => ParentReads[i].arg # ParentReads[j].arg
        /\ Iterations <= ChainLength
        /\ IsSome(result.info.tag_info) =>
              Unwrap(result.info.tag_info).commits_since_tag <= ChainLength - 1

\* The walk went down the whole chain of a history with a merge and found
\* the tag on the root.
WalkIsBoundedWitness ==
    /\ ReturnedOk
    /\ IsSome(result.info.tag_info)
    /\ Iterations = ChainLength
    /\ ChainLength >= 2
    /\ ChainLength < Len(parents)

\* Calls of the closure, in the latest call of all_tags, on a name that it
\* rejects: each of them records an error.
ErrorsRecorded ==
    { k \in 1..Len(calls) : Malformed([name |-> calls[k].arg]) }

\* C27: the assertions in the error arms of the closure never fail: no
\* call of all_tags or get_git_info panics, the closure records at most
\* one error per call of all_tags, in its last invocation, and that error
\* is the one of the first malformed reference in enumeration order.
ClosureAssertsHold ==
    /\ result # Panic
    /\ AllTagsReturned =>
          /\ Cardinality(ErrorsRecorded) <= 1
          /\ ErrorsRecorded \subseteq {Len(calls)}
          /\ ErrorsRecorded # {} =>
                /\ ErrorsRecorded = {FirstMalformed}
                /\ result = TagsErr(MalformedError(tags[FirstMalformed]))

\* all_tags has failed on the reference enumerated first, with another
\* malformed reference enumerated after it.
ClosureAssertsHoldWitness ==
    /\ result.kind = "TagsErr"
    /\ Len(calls) = 1
    /\ Cardinality({ k \in 1..Len(tags) : Malformed(tags[k]) }) = 2

\* Lines of the build script's output that set the variable.
Emissions(var) ==
    { k \in 1..Len(build.stdout) :
        build.stdout[k].directive = "rustc-env" /\ build.stdout[k].var = var }

\* The value the build script emitted for the variable.
Emitted(var) == Unwrap(CargoEnv(build.stdout, var))

\* C28: a build script run that completed has emitted each of the six
\* variables exactly once; the variables that init_proxy_lib parses for
\* the emitted IS_KNOWN and HAS_TAG hold parseable text, and the library
\* compiled from them has decoded GITINFO without failure, also from the
\* empty values of an unknown version or a missing tag.
SixVariablesDecodable ==
    build.status = "completed" =>
        /\ \A var \in EnvVars : Cardinality(Emissions(var)) = 1
        /\ Emitted(IS_KNOWN) \in {TrueText, FalseText}
        /\ Emitted(IS_KNOWN) = TrueText =>
              /\ Emitted(HAS_TAG) \in {TrueText, FalseText}
              /\ Emitted(MODIFIED) \in {TrueText, FalseText}
              /\ Emitted(HAS_TAG) = TrueText =>
                    IsDecimalOf(Emitted(COMMITS_SINCE_TAG),
                                DecimalValue(Emitted(COMMITS_SINCE_TAG)))
        /\ IsSome(build.gitinfo) => Unwrap(build.gitinfo).ok

\* The library was compiled for a known version without tag: the emitted
\* COMMITS_SINCE_TAG is empty and was not parsed.
SixVariablesDecodableWitness ==
    /\ build.status = "completed"
    /\ IsSome(build.gitinfo)
    /\ Emitted(IS_KNOWN) = TrueText
    /\ Emitted(HAS_TAG) = FalseText
    /\ Emitted(COMMITS_SINCE_TAG) = <<>>

\* The record has a commit_id of exactly 10 hexadecimal characters and, if
\* it has a tag, a non-empty one.
WellFormed(r) ==
    /\ Len(r.commit_id) = COMMIT_ID_SHORT_HASH_LENGTH
    /\ \A i \in 1..Len(r.commit_id) :
          \E d \in 1..Len(HexDigits) : HexDigits[d] = r.commit_id[i]
    /\ IsSome(r.tag_info) => Unwrap(r.tag_info).tag # <<>>

\* C29: rendering is injective on well-formed records: a well-formed
\* record whose Display string equals the one of the well-formed record
\* rendered is that record.
RenderingInjective ==
    (IsSome(shown.display) /\ WellFormed(Unwrap(shown.rec))) =>
        \A r \in FmtRecords :
            (WellFormed(r) /\ DisplayFmt(r) = Unwrap(shown.display))
                => r = Unwrap(shown.rec)

\* A well-formed record has been rendered whose tag with the distance
\* reads like a longer tag with another distance.
RenderingInjectiveWitness ==
    /\ IsSome(shown.display)
    /\ WellFormed(Unwrap(shown.rec))
    /\ IsSome(Unwrap(shown.rec).tag_info)
    /\ Unwrap(Unwrap(shown.rec).tag_info).tag = <<"v","1">>
    /\ Unwrap(Unwrap(shown.rec).tag_info).commits_since_tag = 10

====
